---- MODULE Spec2Model ----
(***************************************************************************)
(* A model of take-a-note: the PyQt GUI (src/podcast_gui.py) and the       *)
(* command line script (src/podcasting-index.py).  One run of the model is *)
(* one run of one of the two programs (variable program).  Strings whose   *)
(* content the code inspects (queries, URLs, transcript text) are          *)
(* sequences of tokens; the other strings are TLA+ strings.  The progress   *)
(* signals and the status label they set are write-only output and are not *)
(* part of the model; the message boxes and the transcript pane are.       *)
(***************************************************************************)
EXTENDS Integers, Sequences, FiniteSets, TLC

\* ------------------------------------------------------------- bounds
\* WorkUnits (episode selections) one run of the GUI may start.
MaxUnits == 2
\* Entries of the largest feed document.
MaxEntries == 12
\* Chunks of an audio response body.
NumChunks == 2
\* Length of the longest query typed.
MaxQueryLen == 2
\* Segments of the longest transcription result.
MaxSegs == 2

\* -------------------------------------------------- program constants
\* parsed.entries[:10]
MaxEpisodes == 10

\* ------------------------------------------------------------ strings
Min(a, b) == IF a <= b THEN a ELSE b

Take(s, n) == SubSeq(s, 1, Min(n, Len(s)))

RECURSIVE LStrip(_)
LStrip(s) == IF s # <<>> /\ Head(s) = " " THEN LStrip(Tail(s)) ELSE s

RECURSIVE RStrip(_)
RStrip(s) ==
    IF s # <<>> /\ s[Len(s)] = " " THEN RStrip(SubSeq(s, 1, Len(s) - 1)) ELSE s

\* str.strip()
Strip(s) == RStrip(LStrip(s))

\* Index of the first / the last occurrence of token c in s, 0 when absent.
RECURSIVE FirstIndex(_, _, _)
FirstIndex(s, c, i) ==
    IF i > Len(s) THEN 0 ELSE IF s[i] = c THEN i ELSE FirstIndex(s, c, i + 1)

RECURSIVE LastIndex(_, _, _)
LastIndex(s, c, i) ==
    IF i < 1 THEN 0 ELSE IF s[i] = c THEN i ELSE LastIndex(s, c, i - 1)

\* audio_url.split("?")[0]
BeforeQuery(url) ==
    LET i == FirstIndex(url, "?", 1)
    IN  IF i = 0 THEN url ELSE SubSeq(url, 1, i - 1)

\* os.path.basename
Basename(p) == SubSeq(p, LastIndex(p, "/", Len(p)) + 1, Len(p))

\* os.path.splitext(p)[0], for a p without directory part: the extension
\* starts at the last dot, unless only dots precede it.
RECURSIVE AllDots(_)
AllDots(s) == s = <<>> \/ (Head(s) = "." /\ AllDots(Tail(s)))

SplitextRoot(p) ==
    LET i == LastIndex(p, ".", Len(p))
    IN  IF i = 0 \/ AllDots(SubSeq(p, 1, i - 1)) THEN p ELSE SubSeq(p, 1, i - 1)

\* os.path.join(dir, name)
PathJoin(dir, name) == <<dir, "/">> \o name

\* "\n".join(lines)
RECURSIVE JoinLines(_)
JoinLines(lines) ==
    IF lines = <<>> THEN <<>>
    ELSE IF Len(lines) = 1 THEN lines[1]
    ELSE lines[1] \o <<"\n">> \o JoinLines(Tail(lines))

\* --------------------------------------------------- the outside world
\* Queries the user may type: all token sequences over a blank and a letter.
RECURSIVE SeqsUpTo(_, _)
SeqsUpTo(S, n) ==
    IF n = 0 THEN {<<>>}
    ELSE LET shorter == SeqsUpTo(S, n - 1)
         IN  shorter \cup {Append(s, c) : s \in shorter, c \in S}

Queries == SeqsUpTo({" ", "q"}, MaxQueryLen)

\* Feed descriptors of a search response; one lacks its title.
FeedA == [hasTitle |-> TRUE, title |-> "Hardcore History", url |-> "feedA"]
FeedB == [hasTitle |-> TRUE, title |-> "Other", url |-> "feedB"]
FeedNoTitle == [hasTitle |-> FALSE, title |-> "", url |-> "feedC"]

\* Feeds of the longest search response.
MaxFeeds == 3

\* What the index service may answer: a failure (transport error, non-2xx
\* status, undecodable body) or a list of feeds.
SearchResponses ==
    { [ok |-> FALSE, feeds |-> <<>>],
      [ok |-> TRUE, feeds |-> <<>>],
      [ok |-> TRUE, feeds |-> <<FeedA, FeedB>>],
      [ok |-> TRUE, feeds |-> <<FeedA, FeedNoTitle, FeedB>>] }

\* Audio URLs.  UrlA and UrlB differ and share their last path component.
UrlA == <<"https:", "/", "/", "cdn", "/", "ep1", ".", "mp3", "?", "sig">>
UrlB == <<"https:", "/", "/", "alt", "/", "ep1", ".", "mp3">>
UrlC == <<"https:", "/", "/", "cdn", "/", "ep2", ".", "mp3">>

\* The enclosures of the i-th entry of a feed document: one, none, or two
\* (only the first is used).
EnclosuresOf(i) ==
    CASE i % 3 = 1 -> <<UrlA>>
      [] i % 3 = 2 -> <<>>
      [] OTHER -> <<UrlB, UrlC>>

Entry(i) == [title |-> i, enclosures |-> EnclosuresOf(i)]

\* A feed document with n entries, in source order.
Doc(n) == [i \in 1..n |-> Entry(i)]

\* The segments model.transcribe returns for an audio of n segments.
SegText(i) == IF i % 2 = 1 THEN <<" ", "a", " ">> ELSE <<"b">>

Segments(n) == [i \in 1..n |-> SegText(i)]

\* Exception texts, str(e).
HttpErrorText == "404 Client Error"
TransportErrorText == "Connection broken"
ModelLoadErrorText == "model load failed"
TranscriptionErrorText == "decode failed"
StorageErrorText == "No space left on device"

\* ---------------------------------------------------------------- state
VARIABLES
    program,                \* "gui" or "cli": which of the two programs runs
    api_key,                \* os.getenv('API_KEY') is a non-empty string
    api_secret,             \* os.getenv('API_SECRET') is a non-empty string
    results_list,           \* QListWidget: the titles shown
    current_feed,           \* self.current_feed: None or the stored feeds
    episodes_list,          \* QListWidget: the episode titles shown
    current_episodes,       \* self.current_episodes
    transcription_display,  \* QTextEdit text
    dialog,                 \* the last QMessageBox shown
    posted,                 \* the q of the last search request sent, if any
    crashed,                \* an exception left a slot or the script uncaught
    closed,                 \* the main window was closed
    units,                  \* the WorkUnits started, with their workers
    events,                 \* worker signals queued for the GUI thread
    downloads,              \* paths of the files in downloads/
    transcripts,            \* the files in transcriptions/: path and content
    cli,                    \* the script's position and local variables
    fetched                 \* the condition of the feed fetched last, or "none"

vars ==
    <<program, api_key, api_secret, results_list, current_feed, episodes_list,
      current_episodes, transcription_display, dialog, posted,
      crashed, closed, units, events, downloads, transcripts, cli, fetched>>

guiBrowse ==
    <<results_list, current_feed, episodes_list, current_episodes>>

\* The script's position (pc) and variables: query, feeds, the index fi of
\* feed_data in feeds, the number n of parsed.entries, the titles printed
\* (listed), choice, and the last line printed (out).
cliIdle ==
    [pc |-> "off", query |-> <<>>, feeds |-> <<>>, fi |-> 0, n |-> 0,
     listed |-> <<>>, choice |-> 0, out |-> ""]

NoDialog == [kind |-> "none", title |-> "", text |-> <<>>]

MessageBox(kind, title, text) == [kind |-> kind, title |-> title, text |-> text]

NoFeed == [isNone |-> TRUE, feeds |-> <<>>]

Stored(feeds) == [isNone |-> FALSE, feeds |-> feeds]

\* The titles of entries / of feeds, as the list widgets show them.
TitlesOf(s) == [i \in 1..Len(s) |-> s[i].title]

\* PodcastTranscriberGUI.__init__ and setup_ui
InitGUI ==
    /\ program = "gui"
    /\ api_key \in BOOLEAN
    /\ api_secret \in BOOLEAN
    /\ results_list = <<>>
    /\ current_feed = NoFeed
    /\ episodes_list = <<>>
    /\ current_episodes = <<>>
    /\ transcription_display = <<>>
    /\ dialog = IF ~api_key \/ ~api_secret
                THEN MessageBox("warning", "Configuration Error",
                                <<"API keys not found. Please set them in .env file">>)
                ELSE NoDialog
    /\ posted = <<>>
    /\ crashed = FALSE
    /\ closed = FALSE
    /\ units = <<>>
    /\ events = <<>>
    /\ downloads = {}
    /\ transcripts = {}
    /\ cli = cliIdle
    /\ fetched = "none"

\* ------------------------------------------------------- GUI: search
\* The loop "for feed in feeds: self.results_list.addItem(feed["title"])":
\* the titles added before the first feed without a title raises KeyError.
RECURSIVE AddedTitles(_)
AddedTitles(feeds) ==
    IF feeds = <<>> \/ ~Head(feeds).hasTitle THEN <<>>
    ELSE <<Head(feeds).title>> \o AddedTitles(Tail(feeds))

AllTitled(feeds) == \A i \in 1..Len(feeds) : feeds[i].hasTitle

\* The part of search_podcasts after the request was answered.
SearchOutcome(resp) ==
    IF ~resp.ok
    THEN /\ dialog' = MessageBox("critical", "Error",
                                 <<"Search failed: ", HttpErrorText>>)
         /\ results_list' = <<>>
         /\ UNCHANGED current_feed
    ELSE IF resp.feeds = <<>>
    THEN /\ dialog' = MessageBox("information", "No Results",
                                 <<"No podcasts found">>)
         /\ results_list' = <<>>
         /\ UNCHANGED current_feed
    ELSE /\ results_list' = AddedTitles(resp.feeds)
         /\ IF AllTitled(resp.feeds)
            THEN /\ current_feed' = Stored(resp.feeds)
                 /\ UNCHANGED dialog
            ELSE /\ dialog' = MessageBox("critical", "Error",
                                         <<"Search failed: ", "'title'">>)
                 /\ UNCHANGED current_feed

\* Mutant of search_podcasts: the credentials are not checked.
search_podcastsUnchecked(text, resp) ==
    /\ program = "gui" /\ ~crashed /\ ~closed
    /\ IF Strip(text) = <<>>
       THEN /\ dialog' = MessageBox("warning", "Error",
                                    <<"Please enter a search query">>)
            /\ UNCHANGED <<guiBrowse, transcription_display, posted>>
       ELSE /\ episodes_list' = <<>>
            /\ transcription_display' = <<>>
            /\ posted' = <<Strip(text)>>
            /\ SearchOutcome(resp)
            /\ UNCHANGED current_episodes
    /\ UNCHANGED <<program, api_key, api_secret, crashed,
                   closed, units, events, downloads, transcripts, cli, fetched>>

search_podcasts(text, resp) ==
    /\ program = "gui" /\ ~crashed /\ ~closed
    /\ IF ~api_key \/ ~api_secret
       THEN /\ dialog' = MessageBox("warning", "Error",
                                    <<"API keys not configured">>)
            /\ UNCHANGED <<guiBrowse, transcription_display, posted>>
       ELSE IF Strip(text) = <<>>
       THEN /\ dialog' = MessageBox("warning", "Error",
                                    <<"Please enter a search query">>)
            /\ UNCHANGED <<guiBrowse, transcription_display, posted>>
       ELSE /\ episodes_list' = <<>>
            /\ transcription_display' = <<>>
            /\ posted' = <<Strip(text)>>
            /\ SearchOutcome(resp)
            /\ UNCHANGED current_episodes
    /\ UNCHANGED <<program, api_key, api_secret, crashed,
                   closed, units, events, downloads, transcripts, cli, fetched>>

\* ------------------------------------------------ GUI: episode listing
\* What feedparser.parse may do, by the condition of the feed.  A feed that
\* cannot be fetched makes it raise, or return a result without entries (the
\* error is kept in bozo_exception, which the code does not read); so does a
\* malformed document none of whose entries can be recovered; a well-formed
\* document of n entries gives its n entries.
ParseResults ==
    {[feed |-> "unreachable", raised |-> r, n |-> 0] : r \in BOOLEAN}
        \cup {[feed |-> "malformed", raised |-> FALSE, n |-> 0]}
        \cup {[feed |-> "wellformed", raised |-> FALSE, n |-> n] : n \in 0..MaxEntries}

\* parsed.entries[:10]
Listed(entries) == Take(entries, MaxEpisodes)

\* show_episodes for a double-click on row i of the results list.
show_episodes(i, parsed) ==
    /\ program = "gui" /\ ~crashed /\ ~closed
    /\ i \in 1..Len(results_list)
    /\ IF current_feed.isNone \/ i > Len(current_feed.feeds)
       THEN \* self.current_feed[feed_index] raises outside the try block
            /\ crashed' = TRUE
            /\ UNCHANGED <<episodes_list, current_episodes, dialog, fetched>>
       ELSE /\ UNCHANGED crashed
            /\ fetched' = parsed.feed
            /\ IF parsed.raised
               THEN /\ dialog' = MessageBox("critical", "Error",
                                 <<"Failed to fetch episodes: ", TransportErrorText>>)
                    /\ UNCHANGED <<episodes_list, current_episodes>>
               ELSE IF parsed.n = 0
               THEN /\ episodes_list' = <<>>
                    /\ dialog' = MessageBox("information", "No Episodes",
                                            <<"No episodes found">>)
                    /\ UNCHANGED current_episodes
               ELSE /\ current_episodes' = Listed(Doc(parsed.n))
                    /\ episodes_list' = TitlesOf(Listed(Doc(parsed.n)))
                    /\ UNCHANGED dialog
    /\ UNCHANGED <<program, api_key, api_secret, results_list, current_feed,
                   transcription_display, posted, closed,
                   units, events, downloads, transcripts, cli>>

\* ------------------------------------------------------ GUI: WorkUnits
\* entry.enclosures[0].href if entry.enclosures else None  (<<>> is None)
AudioUrl(entry) ==
    IF entry.enclosures # <<>> THEN entry.enclosures[1] ELSE <<>>

\* Mutant of HasAudio: the check of audio_url is missing.
HasAudioAlways(entry) == TRUE

\* "if not audio_url" / "if audio_url"
HasAudio(entry) == AudioUrl(entry) # <<>>

\* A WorkUnit is one episode selection.  The code keeps no such object: the
\* record gathers the selection's DownloadWorker (d*), its
\* TranscriptionWorker (t*) and what the GUI thread's slots did for it.
\* hist is the list of statuses it went through.
NewUnit(entry) ==
    [enclosures |-> entry.enclosures,
     audio_url |-> AudioUrl(entry),
     filename |-> <<>>,      \* DownloadWorker.filename
     hist |-> <<"Queued">>,
     dpc |-> "none",         \* none, started, writing, finished, failed
     written |-> 0,          \* chunks written to the download file
     fileOpen |-> FALSE,     \* the download's file handle is open
     cancelRequested |-> FALSE, \* terminate() was called on a worker
     tpc |-> "none",         \* none, started, loaded, finished, failed
     audio_path |-> <<>>,    \* TranscriptionWorker.audio_path
     exc |-> "",             \* str(e) of the exception a worker caught
     errorEmits |-> 0,       \* error signals emitted by the workers
     errorMessage |-> <<>>,  \* the message shown for the unit's failure
     transcriptPath |-> <<>>] \* the path reported by the finished signal

Status(u) == u.hist[Len(u.hist)]

IsActive(u) == Status(u) \in {"Downloading", "Transcribing"}

Enter(u, status) == [u EXCEPT !.hist = Append(@, status)]

\* A signal emitted from a worker thread to a slot of the GUI thread.
\* sender is the worker class; message is the signal's text argument.
Signal(sender, sig, k, message, path) ==
    [sender |-> sender, sig |-> sig, unit |-> k, message |-> message,
     path |-> path]

\* Mutant of FileName: the last component is taken before the query string
\* is cut off.
FileNameBasenameFirst(audio_url) == BeforeQuery(Basename(audio_url))

\* os.path.basename(audio_url.split("?")[0])
FileName(audio_url) == Basename(BeforeQuery(audio_url))

\* DownloadWorker(audio_url, filename) ... self.download_worker.start()
StartDownload(entry) ==
    [Enter(NewUnit(entry), "Downloading") EXCEPT
        !.filename = FileName(AudioUrl(entry)), !.dpc = "started"]

\* The selection is refused with a message: no worker is created.
Refused(entry, message) ==
    [Enter(NewUnit(entry), "Failed") EXCEPT !.errorMessage = <<message>>]

\* download_episode for a double-click on row i of the episodes list; at
\* most limit selections are explored.
download_episode(i, limit) ==
    /\ program = "gui" /\ ~crashed /\ ~closed
    /\ i \in 1..Len(episodes_list)
    /\ Len(units) < limit
    /\ IF i > Len(current_episodes)
       THEN \* self.current_episodes[episode_index] raises outside the try
            /\ crashed' = TRUE
            /\ UNCHANGED <<units, dialog>>
       ELSE /\ UNCHANGED crashed
            /\ IF ~HasAudio(current_episodes[i])
               THEN /\ dialog' = MessageBox("warning", "Error",
                                   <<"No audio found for this episode">>)
                    /\ units' = Append(units,
                          Refused(current_episodes[i],
                                  "No audio found for this episode"))
               ELSE /\ units' = Append(units, StartDownload(current_episodes[i]))
                    /\ UNCHANGED dialog
    /\ UNCHANGED <<program, api_key, api_secret, guiBrowse,
                   transcription_display, posted, closed,
                   events, downloads, transcripts, cli, fetched>>

\* ------------------------------------------------- DownloadWorker.run
workerFrame ==
    <<program, api_key, api_secret, guiBrowse, transcription_display,
      dialog, posted, crashed, closed, cli, fetched>>

Running == program = "gui" /\ ~crashed /\ ~closed

\* requests.get, resp.raise_for_status() and open(filepath, "wb"): the
\* request is refused, or the file is created and opened.
DownloadBegin(k, ok) ==
    /\ Running
    /\ k \in 1..Len(units) /\ units[k].dpc = "started"
    /\ IF ok
       THEN /\ units' = [units EXCEPT ![k] = [@ EXCEPT !.dpc = "writing",
                                                       !.fileOpen = TRUE]]
            /\ UNCHANGED events
            /\ downloads' = downloads \cup {PathJoin("downloads", units[k].filename)}
       ELSE /\ units' = [units EXCEPT ![k] = [@ EXCEPT !.dpc = "failed",
                                                       !.exc = HttpErrorText,
                                                       !.errorEmits = @ + 1]]
            /\ events' = Append(events,
                  Signal("download", "error", k, <<HttpErrorText>>, <<>>))
            /\ UNCHANGED downloads
    /\ UNCHANGED <<workerFrame, transcripts>>

\* str(e) of what a round of the chunk loop may raise: iter_content when the
\* transfer breaks, f.write when the chunk cannot be stored.
ChunkErrorTexts == {TransportErrorText, StorageErrorText}

\* One round of "for chunk in resp.iter_content(...): f.write(chunk)": a
\* chunk is written, or the round raises and both with-blocks are left.
DownloadChunk(k, ok) ==
    /\ Running
    /\ k \in 1..Len(units) /\ units[k].dpc = "writing"
    /\ units[k].written < NumChunks
    /\ IF ok
       THEN /\ units' = [units EXCEPT ![k] = [@ EXCEPT !.written = @ + 1]]
            /\ UNCHANGED events
       ELSE \E cause \in ChunkErrorTexts :
            /\ units' = [units EXCEPT ![k] = [@ EXCEPT !.dpc = "failed",
                                                       !.fileOpen = FALSE,
                                                       !.exc = cause,
                                                       !.errorEmits = @ + 1]]
            /\ events' = Append(events,
                                Signal("download", "error", k, <<cause>>, <<>>))
    /\ UNCHANGED <<workerFrame, downloads, transcripts>>

\* Mutant of DownloadFinish: finished is emitted inside the with-block,
\* while the file is still open.
DownloadFinishInsideWith(k) ==
    /\ Running
    /\ k \in 1..Len(units) /\ units[k].dpc = "writing"
    /\ units[k].written = NumChunks
    /\ units' = [units EXCEPT ![k] = [@ EXCEPT !.dpc = "finished"]]
    /\ events' = Append(events,
          Signal("download", "finished", k, <<>>,
                 PathJoin("downloads", units[k].filename)))
    /\ UNCHANGED <<workerFrame, downloads, transcripts>>

\* The body is exhausted: the with-blocks close the file and the response,
\* then self.finished.emit(filepath).
DownloadFinish(k) ==
    /\ Running
    /\ k \in 1..Len(units) /\ units[k].dpc = "writing"
    /\ units[k].written = NumChunks
    /\ units' = [units EXCEPT ![k] = [@ EXCEPT !.dpc = "finished",
                                               !.fileOpen = FALSE]]
    /\ events' = Append(events,
          Signal("download", "finished", k, <<>>, PathJoin("downloads", units[k].filename)))
    /\ UNCHANGED <<workerFrame, downloads, transcripts>>

\* ------------------------------------------------------- GUI: slots
\* The slot the GUI thread runs next is the one connected to the oldest
\* queued signal.
Pending(sender, sig) ==
    /\ Running
    /\ events # <<>>
    /\ Head(events).sender = sender
    /\ Head(events).sig = sig

slotFrame ==
    <<program, api_key, api_secret, guiBrowse, posted, crashed, closed,
      downloads, transcripts, cli, fetched>>

\* The WorkUnit after start_transcription(audio_path) created and started
\* its TranscriptionWorker.
Transcribing(u, audio_path) ==
    [Enter(u, "Transcribing") EXCEPT !.tpc = "started", !.audio_path = audio_path]

\* start_transcription(audio_path), connected to DownloadWorker.finished
start_transcription ==
    /\ Pending("download", "finished")
    /\ units' = [units EXCEPT ![Head(events).unit] =
                    Transcribing(@, Head(events).path)]
    /\ events' = Tail(events)
    /\ UNCHANGED <<slotFrame, dialog, transcription_display>>

\* The WorkUnit after show_transcription(text, path).
Completed(u, path) == [Enter(u, "Done") EXCEPT !.transcriptPath = path]

\* show_transcription(text, path), connected to TranscriptionWorker.finished
show_transcription ==
    /\ Pending("transcription", "finished")
    /\ transcription_display' = Head(events).message
    /\ units' = [units EXCEPT ![Head(events).unit] = Completed(@, Head(events).path)]
    /\ events' = Tail(events)
    /\ UNCHANGED <<slotFrame, dialog>>

\* Mutant of Failed: the failed download is started again.
FailedRetries(u, message) ==
    [Enter(u, "Downloading") EXCEPT !.dpc = "started", !.written = 0]

\* Mutant of Failed: the message is shown with a prefix.
FailedWrapped(u, message) ==
    [Enter(u, "Failed") EXCEPT !.errorMessage = <<"Error: ">> \o message]

\* The WorkUnit after show_error(message).
Failed(u, message) == [Enter(u, "Failed") EXCEPT !.errorMessage = message]

\* QMessageBox.critical(self, "Error", message)
ErrorBox(message) == MessageBox("critical", "Error", message)

\* show_error(message), connected to both workers' error
show_error ==
    /\ Running /\ events # <<>> /\ Head(events).sig = "error"
    /\ dialog' = ErrorBox(Head(events).message)
    /\ units' = [units EXCEPT ![Head(events).unit] = Failed(@, Head(events).message)]
    /\ events' = Tail(events)
    /\ UNCHANGED <<slotFrame, transcription_display>>

\* --------------------------------------------- TranscriptionWorker.run
\* lines = [seg["text"].strip() for seg in result["segments"]]
Lines(segments) == [i \in 1..Len(segments) |-> Strip(segments[i])]

\* formatted = "\n".join(lines)
Formatted(segments) == JoinLines(Lines(segments))

\* os.path.join("transcriptions", f"{base_name}.txt") with
\* base_name = os.path.splitext(os.path.basename(audio_path))[0]
TxtOut(audio_path) ==
    PathJoin("transcriptions", SplitextRoot(Basename(audio_path)) \o <<".", "txt">>)

\* open(path, "w") ... write(text): the file at path holds text.
WriteFile(files, path, text) ==
    {f \in files : f.path # path} \cup {[path |-> path, text |-> text]}

\* whisper.load_model("tiny")
TranscribeLoad(k, ok) ==
    /\ Running
    /\ k \in 1..Len(units) /\ units[k].tpc = "started"
    /\ IF ok
       THEN /\ units' = [units EXCEPT ![k] = [@ EXCEPT !.tpc = "loaded"]]
            /\ UNCHANGED events
       ELSE /\ units' = [units EXCEPT ![k] = [@ EXCEPT !.tpc = "failed",
                                                       !.exc = ModelLoadErrorText,
                                                       !.errorEmits = @ + 1]]
            /\ events' = Append(events,
                  Signal("transcription", "error", k, <<ModelLoadErrorText>>, <<>>))
    /\ UNCHANGED <<workerFrame, downloads, transcripts>>

\* What the rest of run may do: transcribe raises, the transcript cannot be
\* written, or n segments are recognised and saved.
TranscribeResults ==
    {[kind |-> "decode", n |-> 0], [kind |-> "storage", n |-> 0]}
        \cup {[kind |-> "ok", n |-> n] : n \in 0..MaxSegs}

\* Mutant of TranscribeSignal: finished is emitted whether or not the
\* transcript could be produced and written.
TranscribeSignalAlwaysFinished(k, audio_path, res) ==
    Signal("transcription", "finished", k,
           Formatted(Segments(res.n)), TxtOut(audio_path))

\* Mutant of TranscribeSignal: the text reported has a newline after the
\* last line, the text written has not.
TranscribeSignalTrailing(k, audio_path, res) ==
    IF res.kind = "ok"
    THEN Signal("transcription", "finished", k,
                Formatted(Segments(res.n)) \o <<"\n">>, TxtOut(audio_path))
    ELSE Signal("transcription", "error", k,
                <<IF res.kind = "decode" THEN TranscriptionErrorText
                  ELSE StorageErrorText>>, <<>>)

\* The signal run ends with: finished.emit(formatted, txt_out), or
\* error.emit(str(e)) from the except clause.
TranscribeSignal(k, audio_path, res) ==
    IF res.kind = "ok"
    THEN Signal("transcription", "finished", k,
                Formatted(Segments(res.n)), TxtOut(audio_path))
    ELSE Signal("transcription", "error", k,
                <<IF res.kind = "decode" THEN TranscriptionErrorText
                  ELSE StorageErrorText>>, <<>>)

\* model.transcribe, the formatting, the write of the transcript and
\* finished.emit(formatted, txt_out)
TranscribeRun(k, res) ==
    /\ Running
    /\ k \in 1..Len(units) /\ units[k].tpc = "loaded"
    /\ events' = Append(events, TranscribeSignal(k, units[k].audio_path, res))
    /\ IF res.kind = "ok"
       THEN /\ units' = [units EXCEPT ![k] = [@ EXCEPT !.tpc = "finished"]]
            /\ transcripts' = WriteFile(transcripts, TxtOut(units[k].audio_path),
                                        Formatted(Segments(res.n)))
       ELSE /\ units' = [units EXCEPT ![k] =
                  [@ EXCEPT !.tpc = "failed",
                            !.exc = IF res.kind = "decode"
                                    THEN TranscriptionErrorText
                                    ELSE StorageErrorText,
                            !.errorEmits = @ + 1]]
            /\ UNCHANGED transcripts
    /\ UNCHANGED <<workerFrame, downloads>>

\* ------------------------------------------------------ GUI: shutdown
\* The window is closed.  closeEvent is defined at module level, after the
\* class: PodcastTranscriberGUI does not override QMainWindow.closeEvent, so
\* no worker is asked to stop; app.exec() returns and sys.exit ends the
\* process with the workers wherever they are.
CloseWindow ==
    /\ Running
    /\ closed' = TRUE
    /\ UNCHANGED <<program, api_key, api_secret, guiBrowse,
                   transcription_display, dialog, posted,
                   crashed, units, events, downloads, transcripts, cli, fetched>>

\* ------------------------------------------------------ the CLI script
cliFrame ==
    <<program, api_key, api_secret, guiBrowse, transcription_display,
      dialog, closed, events>>

AtCli(pc) == program = "cli" /\ ~crashed /\ cli.pc = pc

\* load_dotenv ... the credential check ... whisper.load_model("base")
CliStart ==
    /\ AtCli("start")
    /\ IF ~api_key \/ ~api_secret
       THEN /\ cli' = [cli EXCEPT !.pc = "raised",
                                  !.out = "ValueError: API keys not found. Please set them in .env"]
            /\ crashed' = TRUE
       ELSE /\ cli' = [cli EXCEPT !.pc = "search"]
            /\ UNCHANGED crashed
    /\ UNCHANGED <<cliFrame, posted, units, downloads, transcripts, fetched>>

\* query = args.search_query ... r = requests.post(url, headers=headers) and
\* the branches on r.status_code and feeds
CliSearch(query, resp) ==
    /\ AtCli("search")
    /\ posted' = <<query>>
    /\ cli' = IF ~resp.ok
              THEN [cli EXCEPT !.pc = "done", !.query = query, !.out = "Error:"]
              ELSE IF resp.feeds = <<>>
              THEN [cli EXCEPT !.pc = "done", !.query = query,
                               !.out = "No feeds found."]
              ELSE [cli EXCEPT !.pc = "feed", !.query = query,
                               !.feeds = resp.feeds, !.fi = 1]
    /\ UNCHANGED <<cliFrame, crashed, units, downloads, transcripts, fetched>>

\* The for loop goes on to the next feed, or ends.  parsed and choice are
\* assigned again before they are read again: the model forgets them here.
NextFeed(c, out) ==
    IF c.fi < Len(c.feeds)
    THEN [c EXCEPT !.pc = "feed", !.fi = @ + 1, !.out = out,
                   !.n = 0, !.listed = <<>>, !.choice = 0]
    ELSE [c EXCEPT !.pc = "done", !.out = out]

\* for i, entry in enumerate(parsed.entries[:10], 1): print(...)
CliListed(n) == TitlesOf(Take(Doc(n), MaxEpisodes))

\* parsed = feedparser.parse(rss_feed) and the listing of its episodes
CliFeed(parsed) ==
    /\ AtCli("feed")
    /\ fetched' = parsed.feed
    /\ IF parsed.raised
       THEN /\ cli' = [cli EXCEPT !.pc = "raised", !.out = TransportErrorText]
            /\ crashed' = TRUE
       ELSE /\ UNCHANGED crashed
            /\ IF parsed.n = 0
               THEN cli' = NextFeed(cli, "No episodes found.")
               ELSE cli' = [cli EXCEPT !.pc = "choose", !.n = parsed.n,
                                       !.listed = CliListed(parsed.n),
                                       !.out = "Avaliable episodes:"]
    /\ UNCHANGED <<cliFrame, posted, units, downloads, transcripts>>

\* if 0 <= choice < len(parsed.entries)
ChoiceAccepted(choice, n) == 0 <= choice /\ choice < n

\* choice = int(input(...)) - 1 and the branches down to the download
CliChoose(number) ==
    /\ AtCli("choose")
    /\ LET choice == number - 1
       IN  IF ChoiceAccepted(choice, cli.n)
           THEN IF HasAudio(Doc(cli.n)[choice + 1])
                THEN /\ units' = Append(units, StartDownload(Doc(cli.n)[choice + 1]))
                     /\ cli' = [cli EXCEPT !.pc = "download", !.choice = choice,
                                           !.out = "Downloading:"]
                ELSE /\ units' = Append(units,
                           Refused(Doc(cli.n)[choice + 1], "No audio found!"))
                     /\ cli' = NextFeed([cli EXCEPT !.choice = choice],
                                        "No audio found!")
           ELSE /\ cli' = NextFeed([cli EXCEPT !.choice = choice],
                                   "Invalid choice!")
                /\ UNCHANGED units
    /\ UNCHANGED <<cliFrame, posted, crashed, downloads, transcripts, fetched>>

\* The unit the script is downloading or transcribing.
CliUnit == Len(units)

\* with requests.get(audio_url, stream=True) as resp: ... f.write(chunk),
\* then model.transcribe starts; an exception ends the script.
CliDownload(ok) ==
    /\ AtCli("download")
    /\ IF ok
       THEN /\ units' = [units EXCEPT ![CliUnit] =
                  [Transcribing(@, PathJoin("downloads", @.filename)) EXCEPT
                      !.dpc = "finished", !.written = NumChunks]]
            /\ downloads' = downloads \cup
                  {PathJoin("downloads", units[CliUnit].filename)}
            /\ cli' = [cli EXCEPT !.pc = "transcribe", !.out = "Downloaded: "]
            /\ UNCHANGED crashed
       ELSE /\ units' = [units EXCEPT ![CliUnit] =
                  [Failed(@, <<TransportErrorText>>) EXCEPT
                      !.dpc = "failed", !.exc = TransportErrorText]]
            /\ cli' = [cli EXCEPT !.pc = "raised", !.out = TransportErrorText]
            /\ crashed' = TRUE
            /\ UNCHANGED downloads
    /\ UNCHANGED <<cliFrame, posted, transcripts, fetched>>

\* formatted = "\n".join(lines) + "\n"
CliFormatted(segments) == JoinLines(Lines(segments)) \o <<"\n">>

\* os.path.join(transcription_dir, f"{base_name}.txt") with
\* base_name = os.path.splitext(os.path.basename(filename))[0]
CliTxtOut(filename) ==
    PathJoin("transcriptions", SplitextRoot(Basename(filename)) \o <<".", "txt">>)

\* result = model.transcribe(...), the write of the transcript, and break
CliTranscribe(res) ==
    /\ AtCli("transcribe")
    /\ IF res.kind = "ok"
       THEN /\ transcripts' = WriteFile(transcripts,
                                        CliTxtOut(units[CliUnit].filename),
                                        CliFormatted(Segments(res.n)))
            /\ units' = [units EXCEPT ![CliUnit] =
                  [Completed(@, CliTxtOut(@.filename)) EXCEPT !.tpc = "finished"]]
            /\ cli' = [cli EXCEPT !.pc = "done", !.out = "Transcription saved to:"]
            /\ UNCHANGED crashed
       ELSE /\ units' = [units EXCEPT ![CliUnit] =
                  [Failed(@, <<TranscriptionErrorText>>) EXCEPT
                      !.tpc = "failed", !.exc = TranscriptionErrorText]]
            /\ cli' = [cli EXCEPT !.pc = "raised", !.out = TranscriptionErrorText]
            /\ crashed' = TRUE
            /\ UNCHANGED transcripts
    /\ UNCHANGED <<cliFrame, posted, downloads, fetched>>

\* The script's state when it starts.
InitCLI ==
    /\ program = "cli"
    /\ api_key \in BOOLEAN
    /\ api_secret \in BOOLEAN
    /\ results_list = <<>>
    /\ current_feed = NoFeed
    /\ episodes_list = <<>>
    /\ current_episodes = <<>>
    /\ transcription_display = <<>>
    /\ dialog = NoDialog
    /\ posted = <<>>
    /\ crashed = FALSE
    /\ closed = FALSE
    /\ units = <<>>
    /\ events = <<>>
    /\ downloads = {}
    /\ transcripts = {}
    /\ cli = [cliIdle EXCEPT !.pc = "start"]
    /\ fetched = "none"

\* ------------------------------------------------------ specifications
Workers ==
    \/ \E k \in 1..MaxUnits, ok \in BOOLEAN : DownloadBegin(k, ok)
    \/ \E k \in 1..MaxUnits, ok \in BOOLEAN : DownloadChunk(k, ok)
    \/ \E k \in 1..MaxUnits : DownloadFinish(k)
    \/ \E k \in 1..MaxUnits, ok \in BOOLEAN : TranscribeLoad(k, ok)
    \/ \E k \in 1..MaxUnits, res \in TranscribeResults : TranscribeRun(k, res)

Slots ==
    \/ start_transcription
    \/ show_transcription
    \/ show_error

Script ==
    \/ CliStart
    \/ \E query \in Queries, resp \in SearchResponses : CliSearch(query, resp)
    \/ \E parsed \in ParseResults : CliFeed(parsed)
    \/ \E number \in -1..MaxEntries + 1 : CliChoose(number)
    \/ \E ok \in BOOLEAN : CliDownload(ok)
    \/ \E res \in TranscribeResults : CliTranscribe(res)

\* Searching and listing in the GUI, from its construction on, or one run
\* of the script.
InitBrowse == InitGUI \/ InitCLI

NextBrowse ==
    \/ \E text \in Queries, resp \in SearchResponses : search_podcasts(text, resp)
    \/ \E i \in 1..MaxFeeds, parsed \in ParseResults : show_episodes(i, parsed)
    \/ CloseWindow
    \/ Script

SpecBrowse == InitBrowse /\ [][NextBrowse]_vars

\* The GUI after a search answered <<FeedA, FeedB>> and a double-click on a
\* feed listed a document with one entry of each kind.
ListedGUI ==
    /\ program = "gui"
    /\ api_key = TRUE
    /\ api_secret = TRUE
    /\ results_list = TitlesOf(<<FeedA, FeedB>>)
    /\ current_feed = Stored(<<FeedA, FeedB>>)
    /\ current_episodes = Listed(Doc(3))
    /\ episodes_list = TitlesOf(Listed(Doc(3)))
    /\ transcription_display = <<>>
    /\ dialog = NoDialog
    /\ posted = <<<<"q">>>>
    /\ crashed = FALSE
    /\ closed = FALSE
    /\ units = <<>>
    /\ events = <<>>
    /\ downloads = {}
    /\ transcripts = {}
    /\ cli = cliIdle
    /\ fetched = "wellformed"

\* Selecting episodes in the GUI from there on, with the workers and the
\* slots they signal, or one run of the script.
InitPipeline == ListedGUI \/ InitCLI

NextPipeline ==
    \/ \E i \in 1..MaxEpisodes : download_episode(i, MaxUnits)
    \/ Workers
    \/ Slots
    \/ CloseWindow
    \/ Script

SpecPipeline == InitPipeline /\ [][NextPipeline]_vars

\* -------------------------------------------------------------- claims
Units == 1..Len(units)

InHist(u, status) == \E i \in 1..Len(u.hist) : u.hist[i] = status

IsPrefix(s, t) == Len(s) <= Len(t) /\ SubSeq(t, 1, Len(s)) = s

StatusOrder == <<"Queued", "Downloading", "Transcribing", "Done">>

\* The queued signals sig of unit k's workers.
PendingFor(k, sig) == {i \in 1..Len(events) : events[i].unit = k /\ events[i].sig = sig}

\* h is a prefix of StatusOrder, or such a prefix followed by Failed, entered
\* from one of the statuses in from.
StatusSequence(h, from) ==
    /\ h # <<>>
    /\ \/ IsPrefix(h, StatusOrder)
       \/ /\ Len(h) >= 2
          /\ h[Len(h)] = "Failed"
          /\ IsPrefix(SubSeq(h, 1, Len(h) - 1), StatusOrder)
          /\ h[Len(h) - 1] \in from

\* C1 as stated: the statuses of every WorkUnit are a prefix of Queued,
\* Downloading, Transcribing, Done, or end in Failed entered from
\* Downloading or from Transcribing.
C1_FailedOnlyFromStages ==
    \A k \in Units :
        StatusSequence(units[k].hist, {"Downloading", "Transcribing"})

\* C1, amended: the statuses of every WorkUnit are a prefix of Queued,
\* Downloading, Transcribing, Done, or such a prefix ending in Failed, entered
\* from Queued (the episode has no audio), from Downloading or from
\* Transcribing; no status is skipped and none is entered again.
C1_StatusSequence ==
    \A k \in Units :
        StatusSequence(units[k].hist, {"Queued", "Downloading", "Transcribing"})

\* Two selections in the GUI: one went through every status to Done, one
\* was refused in Queued.
C1_Witness ==
    /\ program = "gui"
    /\ \E k \in Units : units[k].hist = StatusOrder
    /\ \E k \in Units : units[k].hist = <<"Queued", "Failed">>

\* C2: a unit's Transcriber runs only after its download finished with every
\* chunk written and the file closed; a unit whose download failed has an
\* error signal emitted, is Failed once the signal is handled, and never
\* has a Transcriber.
C2_TranscribeAfterDownload ==
    \A k \in Units :
        LET u == units[k]
        IN  /\ (u.tpc # "none" \/ InHist(u, "Transcribing")) =>
                 /\ u.dpc = "finished"
                 /\ ~u.fileOpen
                 /\ u.written = NumChunks
            /\ u.dpc = "failed" =>
                 /\ u.tpc = "none"
                 /\ ~InHist(u, "Transcribing")
                 /\ ~u.fileOpen
                 /\ Status(u) = "Failed" \/ PendingFor(k, "error") # {}
                 /\ program = "gui" => u.errorEmits = 1

\* One unit is being transcribed after its download, another's download
\* broke at a chunk and the unit is Failed.
C2_Witness ==
    /\ program = "gui"
    /\ \E k \in Units : units[k].tpc = "started"
    /\ \E k \in Units :
          /\ units[k].dpc = "failed"
          /\ units[k].written > 0
          /\ Status(units[k]) = "Failed"

NoAudioMessages ==
    {<<"No audio found for this episode">>, <<"No audio found!">>}

\* C3: a unit for an entry without enclosure is Failed straight from Queued
\* with a no-audio message, has no download worker, no transcriber and no
\* signal; and while only such entries were selected, downloads/ is empty.
C3_NoEnclosureRefused ==
    /\ \A k \in Units :
          LET u == units[k]
          IN  u.enclosures = <<>> =>
                 /\ u.hist = <<"Queued", "Failed">>
                 /\ u.errorMessage \in NoAudioMessages
                 /\ u.dpc = "none"
                 /\ u.tpc = "none"
                 /\ u.filename = <<>>
                 /\ \A i \in 1..Len(events) : events[i].unit # k
    /\ (\A k \in Units : units[k].enclosures = <<>>) => downloads = {}

\* An entry without enclosure was selected in the GUI.
C3_Witness ==
    /\ program = "gui"
    /\ \E k \in Units :
          units[k].enclosures = <<>> /\ Status(units[k]) = "Failed"

\* C4 as stated: at most one WorkUnit is Downloading or Transcribing.
C4_OneActiveUnit ==
    Cardinality({k \in Units : IsActive(units[k])}) <= 1

\* C5: a unit has a transcript path reported if and only if it is Done; a
\* path is reported only when no stage raised, the transcription worker
\* finished and the file exists.
C5_PathIffDone ==
    \A k \in Units :
        LET u == units[k]
        IN  /\ (u.transcriptPath # <<>>) <=> (Status(u) = "Done")
            /\ u.transcriptPath # <<>> =>
                 /\ u.exc = ""
                 /\ u.tpc = "finished"
                 /\ \E f \in transcripts : f.path = u.transcriptPath

\* One unit is Done with its path, another failed in the transcript write.
C5_Witness ==
    /\ program = "gui"
    /\ \E k \in Units :
          Status(units[k]) = "Done" /\ units[k].transcriptPath # <<>>
    /\ \E k \in Units :
          /\ Status(units[k]) = "Failed"
          /\ units[k].tpc = "failed"
          /\ units[k].exc = StorageErrorText
          /\ units[k].transcriptPath = <<>>

\* C6: a unit one of whose stages raised has exactly one error signal
\* emitted, carrying str(e); once handled the unit is Failed with that
\* text unchanged as its message; Failed is the last status, the unit never
\* reports a transcript, and after a failed download no transcriber runs.
C6_FailureForwarded ==
    \A k \in Units :
        LET u == units[k]
        IN  /\ \A i \in 1..Len(u.hist) - 1 : u.hist[i] # "Failed"
            /\ u.exc # "" =>
                 /\ Status(u) # "Done"
                 /\ u.transcriptPath = <<>>
                 /\ PendingFor(k, "finished") = {}
                 /\ u.dpc = "failed" => u.tpc = "none"
                 /\ program = "gui" => u.errorEmits = 1
                 /\ IF Status(u) = "Failed"
                    THEN u.errorMessage = <<u.exc>> /\ PendingFor(k, "error") = {}
                    ELSE /\ Cardinality(PendingFor(k, "error")) = 1
                         /\ \A i \in PendingFor(k, "error") :
                               events[i].message = <<u.exc>>

\* A download that broke and a transcription that could not be saved were
\* both reported.
C6_Witness ==
    /\ program = "gui"
    /\ \E k \in Units :
          Status(units[k]) = "Failed" /\ units[k].exc = TransportErrorText
    /\ \E k \in Units :
          /\ Status(units[k]) = "Failed"
          /\ units[k].tpc = "failed"
          /\ units[k].exc = StorageErrorText

\* A worker of the unit is running.
InFlight(u) ==
    u.dpc \in {"started", "writing"} \/ u.tpc \in {"started", "loaded"}

\* C7 as stated: once the window is closed, every worker in flight was asked
\* to stop and no download file handle is open.
C7_ShutdownCancels ==
    closed =>
        \A k \in Units :
            /\ InFlight(units[k]) => units[k].cancelRequested
            /\ ~units[k].fileOpen

\* C8 as stated: what the results list shows is nothing, or the titles of
\* the complete stored result.
C8_SearchAllOrNothing ==
    program = "gui" =>
        \/ results_list = <<>>
        \/ /\ ~current_feed.isNone
           /\ results_list = TitlesOf(current_feed.feeds)

\* C9 as stated: no search request carries a query that is empty after
\* trimming.
C9_BlankQueryRejected ==
    posted # <<>> => Strip(posted[1]) # <<>>

\* C10 as stated: the episodes offered are the first min(N, 10) entries in
\* source order, and the episode selected is one of them.
C10_ListedIsSelectable ==
    /\ program = "gui" =>
          /\ Len(current_episodes) <= MaxEpisodes
          /\ \A i \in 1..Len(current_episodes) : current_episodes[i] = Entry(i)
          /\ episodes_list \in {<<>>, TitlesOf(current_episodes)}
    /\ (program = "cli" /\ cli.pc \in {"choose", "download"}) =>
          /\ Len(cli.listed) = Min(cli.n, MaxEpisodes)
          /\ \A i \in 1..Len(cli.listed) : cli.listed[i] = Entry(i).title
    /\ (program = "cli" /\ cli.pc = "download") =>
          cli.choice + 1 \in 1..Len(cli.listed)

\* ---------------------------------------------------------- C11
\* os.linesep of the platform: "\n", or "\r\n".
LineSeps == {<<"\n">>, <<"\r", "\n">>}

\* out.write(text) on a file opened in text mode: every "\n" is stored as
\* os.linesep.
RECURSIVE WriteText(_, _)
WriteText(text, linesep) ==
    IF text = <<>> THEN <<>>
    ELSE (IF Head(text) = "\n" THEN linesep ELSE <<Head(text)>>)
             \o WriteText(Tail(text), linesep)

\* read() of a file opened in text mode: "\r\n" and "\r" are read as "\n".
RECURSIVE ReadText(_)
ReadText(stored) ==
    IF stored = <<>> THEN <<>>
    ELSE IF Head(stored) = "\r"
    THEN <<"\n">> \o ReadText(IF Len(stored) >= 2 /\ stored[2] = "\n"
                             THEN Tail(Tail(stored)) ELSE Tail(stored))
    ELSE <<Head(stored)>> \o ReadText(Tail(stored))

\* The signal the step has just queued, if it queued one (signals are
\* appended at the end and handled from the front).
Emitted(sender, sig) ==
    /\ Len(events') > Len(events)
    /\ events'[Len(events')].sender = sender
    /\ events'[Len(events')].sig = sig

NextSelect ==
    \/ NextBrowse
    \/ \E i \in 1..MaxEpisodes : download_episode(i, MaxUnits)

SpecSelect == InitBrowse /\ [][NextSelect]_vars

MissingCredential == ~api_key \/ ~api_secret

\* The message boxes the GUI shows about the credentials.
CredentialDialogs ==
    { MessageBox("warning", "Configuration Error",
                 <<"API keys not found. Please set them in .env file">>),
      MessageBox("warning", "Error", <<"API keys not configured">>) }

\* C12: when API_KEY or API_SECRET is missing, no search request was sent,
\* no feed was fetched (nothing is listed and no outcome of a fetch was
\* shown), and no worker, signal or file exists; the script stops at the
\* credential check.
C12_MissingCredentialBlocks ==
    MissingCredential =>
        /\ posted = <<>>
        /\ fetched = "none"
        /\ results_list = <<>> /\ current_feed = NoFeed
        /\ episodes_list = <<>> /\ current_episodes = <<>>
        /\ units = <<>> /\ events = <<>>
        /\ downloads = {} /\ transcripts = {}
        /\ program = "gui" => dialog \in CredentialDialogs /\ ~crashed
        /\ program = "cli" =>
              /\ cli.pc \in {"start", "raised"}
              /\ cli.feeds = <<>> /\ cli.n = 0

\* Without a secret, the user pressed Search in the GUI and was refused.
C12_Witness ==
    /\ program = "gui"
    /\ api_key /\ ~api_secret
    /\ dialog = MessageBox("warning", "Error", <<"API keys not configured">>)

\* ---------------------------------------------------------- C13
\* C13 as stated: the report of a valid empty result ("No episodes found")
\* is given only for a well-formed feed; a feed that could not be fetched or
\* parsed is never reported that way.
C13_FailureIsNotEmptiness ==
    /\ (program = "gui" /\ dialog.title = "No Episodes") => fetched = "wellformed"
    /\ (program = "cli" /\ cli.out = "No episodes found.") => fetched = "wellformed"

\* ---------------------------------------------------------- C14
\* C14 as stated: once a WorkUnit is Failed the program has not crashed, the
\* episodes are still listed for selection, and every unit started, before
\* or after the failure, began at Queued with its own workers.
C14_UsableAfterFailure ==
    (\E k \in Units : Status(units[k]) = "Failed") =>
        /\ ~crashed
        /\ program = "gui" => episodes_list # <<>>
        /\ program = "cli" => cli.pc # "raised"
        /\ \A k \in Units :
              /\ units[k].hist[1] = "Queued"
              /\ Len(units[k].hist) >= 2 =>
                    units[k].hist[2] \in {"Downloading", "Failed"}

\* ---------------------------------------------------------- C15
\* The units that have a download file name.
Downloaders == {k \in Units : units[k].filename # <<>>}

\* C15 as stated: two units for different audio URLs have different download
\* files and different transcript files.
C15_DistinctFiles ==
    \A j, k \in Downloaders :
        units[j].audio_url # units[k].audio_url =>
            /\ PathJoin("downloads", units[j].filename)
                  # PathJoin("downloads", units[k].filename)
            /\ TxtOut(PathJoin("downloads", units[j].filename))
                  # TxtOut(PathJoin("downloads", units[k].filename))

\* ---------------------------------------------------------- C16
\* One line per segment, each ended by a newline.
RECURSIVE TerminatedLines(_)
TerminatedLines(lines) ==
    IF lines = <<>> THEN <<>>
    ELSE Head(lines) \o <<"\n">> \o TerminatedLines(Tail(lines))

\* C16 as stated: every transcript file, whichever program wrote it, holds
\* for some segment sequence one newline-terminated line per segment (so
\* both programs write the same text for the same segments).
C16_LinePerSegment ==
    \A f \in transcripts :
        \E n \in 0..MaxSegs : f.text = TerminatedLines(Lines(Segments(n)))

\* ---------------------------------------------------------- C17
\* Directories above the file in the longest URL path.
MaxDepth == 2
\* Episode selections explored per run when the URL varies.
NamingUnits == 1

\* Audio URLs https://cdn/<directories>/<file>[?<query>]: the file name has
\* one extension, none or two; the query may hold "/", "." and "?".
FileNames ==
    { <<"ep1", ".", "mp3">>, <<"ep1">>, <<"ep", ".", "1", ".", "mp3">> }

QueryStrings ==
    { <<>>, <<"?", "sig">>, <<"?", "u", "=", "/", "x", ".", "y">>,
      <<"?", "a", "?", "b">> }

RECURSIVE Directories(_)
Directories(n) == IF n = 0 THEN <<>> ELSE <<"/", "dir">> \o Directories(n - 1)

AudioUrls ==
    { <<"https:", "/", "/", "cdn">> \o Directories(d) \o <<"/">> \o name \o query :
          d \in 0..MaxDepth, name \in FileNames, query \in QueryStrings }

\* The GUI listing one episode whose enclosure is any of these URLs.
ListedUrl ==
    /\ program = "gui"
    /\ api_key = TRUE
    /\ api_secret = TRUE
    /\ results_list = TitlesOf(<<FeedA, FeedB>>)
    /\ current_feed = Stored(<<FeedA, FeedB>>)
    /\ \E url \in AudioUrls :
          current_episodes = <<[title |-> 1, enclosures |-> <<url>>]>>
    /\ episodes_list = TitlesOf(current_episodes)
    /\ transcription_display = <<>>
    /\ dialog = NoDialog
    /\ posted = <<<<"q">>>>
    /\ crashed = FALSE
    /\ closed = FALSE
    /\ units = <<>>
    /\ events = <<>>
    /\ downloads = {}
    /\ transcripts = {}
    /\ cli = cliIdle
    /\ fetched = "wellformed"

InitNaming == ListedUrl \/ InitCLI

NextNaming ==
    \/ \E i \in 1..MaxEpisodes : download_episode(i, NamingUnits)
    \/ Workers
    \/ Slots
    \/ CloseWindow
    \/ Script

SpecNaming == InitNaming /\ [][NextNaming]_vars

\* The parts of a URL scheme://host/path?query, by its structure: the path
\* starts at the first "/" after the host and ends before the first "?".
UrlAfterHost(url) == SubSeq(url, 5, Len(url))

UrlPath(url) == BeforeQuery(UrlAfterHost(url))

\* What follows the last "/" of a path.
LastComponent(path) == SubSeq(path, LastIndex(path, "/", Len(path)) + 1, Len(path))

\* A file name without its extension.
Stem(name) ==
    LET i == LastIndex(name, ".", Len(name))
    IN  IF i <= 1 THEN name ELSE SubSeq(name, 1, i - 1)

DownloadPathFor(url) == <<"downloads", "/">> \o LastComponent(UrlPath(url))

TranscriptPathFor(url) ==
    <<"transcriptions", "/">> \o Stem(LastComponent(UrlPath(url))) \o <<".", "txt">>

C18_StageIdentified ==
    \A j, k \in Units :
        ( /\ Status(units[j]) = "Failed" /\ units[j].dpc = "failed"
          /\ Status(units[k]) = "Failed" /\ units[k].tpc = "failed"
          /\ units[j].exc = units[k].exc )
            => ErrorBox(units[j].errorMessage) # ErrorBox(units[k].errorMessage)

\* ---------------------------------------------------------- C19
\* C19 as stated: whenever the script goes from the prompt to a download,
\* the number entered is that of one of the episodes it listed.
C19_ChoiceWithinListed ==
    [][(program = "cli" /\ cli.pc = "choose" /\ cli'.pc = "download") =>
          /\ 0 <= cli'.choice
          /\ cli'.choice < Len(cli.listed)]_vars

\* ---------------------------------------------------------- C20
\* C20 as stated: in the GUI every row of the results list has its feed at
\* the same index of current_feed and every row of the episodes list its
\* entry at the same index of current_episodes, and no double-click raised
\* for indexing data that is not there.
C20_RowsMatchBackingData ==
    program = "gui" =>
        /\ ~crashed
        /\ \A i \in 1..Len(results_list) :
              /\ ~current_feed.isNone
              /\ i <= Len(current_feed.feeds)
              /\ current_feed.feeds[i].hasTitle
              /\ current_feed.feeds[i].title = results_list[i]
        /\ \A i \in 1..Len(episodes_list) :
              /\ i <= Len(current_episodes)
              /\ current_episodes[i].title = episodes_list[i]

====
